---- MODULE Spec2Model ----
(***************************************************************************)
(* tinybars: the template compiler (compile, compileProgram,               *)
(* compileStatement, compileExpression, compileFunctionCall), the runtime  *)
(* escape helper and the rollup plugin.                                    *)
(*                                                                         *)
(* Text is a sequence of one-character strings.  Generated code is the     *)
(* sequence of chunks the SourceNode tree flattens to; every chunk keeps   *)
(* the original position of the SourceNode it was added to (the source     *)
(* map).  The generated function is run by parsing that chunk sequence     *)
(* with the JavaScript grammar of the constructs the compiler emits.       *)
(***************************************************************************)
EXTENDS Integers, Sequences, FiniteSets, TLC

\* ------------------------------------------------------------------ bounds
\* longest program made of leaf statements
MaxFlat == 3
\* deepest chain of nested blocks
MaxNest == 2

\* the longest comment text
MaxComment == 4

\* ------------------------------------------------------------------ text
\* K applied to v: a local name for a value
Let(v, K(_)) == K(v)

RECURSIVE FlatMap(_, _)
FlatMap(Op(_), s) ==
    IF s = <<>> THEN <<>> ELSE Op(Head(s)) \o FlatMap(Op, Tail(s))

Digits == <<"0", "1", "2", "3", "4", "5", "6", "7", "8", "9">>

IsDigit(c) == \E i \in 1..10 : Digits[i] = c

DigitVal(c) == (CHOOSE i \in 1..10 : Digits[i] = c) - 1

\* Number.prototype.toString for the non-negative integers of the model
RECURSIVE NumToChars(_)
NumToChars(n) ==
    IF n < 10 THEN <<Digits[n + 1]>>
    ELSE NumToChars(n \div 10) \o <<Digits[(n % 10) + 1]>>

\* JSON.stringify of a string: quotes, with " \ and newline escaped
JSONEscapeChar(c) ==
    CASE c = "\"" -> <<"\\", "\"">>
      [] c = "\\" -> <<"\\", "\\">>
      [] c = "\n" -> <<"\\", "n">>
      [] OTHER -> <<c>>

\* JSON.stringify that escapes nothing
JSONstringify_Raw(cs) == <<"\"">> \o cs \o <<"\"">>

JSONstringify(cs) == <<"\"">> \o FlatMap(JSONEscapeChar, cs) \o <<"\"">>

\* String.prototype.replace(/\*\//g, ''): one left-to-right pass that drops
\* every non-overlapping occurrence of the two characters * /
RECURSIVE StripTerminators(_)
StripTerminators(cs) ==
    IF Len(cs) = 0 THEN <<>>
    ELSE IF Len(cs) >= 2 /\ cs[1] = "*" /\ cs[2] = "/"
         THEN StripTerminators(SubSeq(cs, 3, Len(cs)))
         ELSE <<cs[1]>> \o StripTerminators(Tail(cs))

\* ------------------------------------------------------------------ AST
NoLoc == [line |-> 0, column |-> 0]

Part(cs) == [type |-> "string", value |-> cs, loc |-> NoLoc]

SubExprPart == [type |-> "SubExpression", value |-> <<>>, loc |-> NoLoc]

Expr(type, data, head, parts, original, value) ==
    [type |-> type, data |-> data, head |-> head, parts |-> parts,
     original |-> original, value |-> value, loc |-> NoLoc]

Path(data, head, parts, original) ==
    Expr("PathExpression", data, head, parts, original, <<>>)

StringLiteral(cs) == Expr("StringLiteral", FALSE, "", <<>>, "", cs)

\* value is <<"1">> for true and <<>> for false
BooleanLiteral(b) ==
    Expr("BooleanLiteral", FALSE, "", <<>>, "", IF b THEN <<"1">> ELSE <<>>)

\* value holds the digits of the number
NumberLiteral(n) == Expr("NumberLiteral", FALSE, "", <<>>, "", NumToChars(n))

UndefinedLiteral == Expr("UndefinedLiteral", FALSE, "", <<>>, "", <<>>)

NullLiteral == Expr("NullLiteral", FALSE, "", <<>>, "", <<>>)

SubExpression == Expr("SubExpression", FALSE, "", <<>>, "", <<>>)

NoExpr == Expr("none", FALSE, "", <<>>, "", <<>>)

Program(body) == [type |-> "Program", body |-> body, loc |-> NoLoc]

\* an absent inverse program (ast.inverse is undefined)
NoProgram == [type |-> "none", body |-> <<>>, loc |-> NoLoc]

Stmt(type, value, escaped, path, params, program, inverse) ==
    [type |-> type, value |-> value, escaped |-> escaped, path |-> path,
     params |-> params, program |-> program, inverse |-> inverse,
     loc |-> NoLoc]

ContentStatement(cs) ==
    Stmt("ContentStatement", cs, FALSE, NoExpr, <<>>, NoProgram, NoProgram)

CommentStatement(cs) ==
    Stmt("CommentStatement", cs, FALSE, NoExpr, <<>>, NoProgram, NoProgram)

MustacheStatement(path, params, escaped) ==
    Stmt("MustacheStatement", <<>>, escaped, path, params, NoProgram, NoProgram)

PartialStatement ==
    Stmt("PartialStatement", <<>>, FALSE, NoExpr, <<>>, NoProgram, NoProgram)

BlockStatement(helper, params, program, inverse) ==
    Stmt("BlockStatement", <<>>, FALSE, Path(FALSE, helper, <<>>, helper),
         params, program, inverse)

\* ------------------------------------------------------------------ parse
\* parse(str, options) of @handlebars/parser: the template text is taken as
\* the tree it parses to; what the parser adds is every node's position.
\* Nodes are numbered in source order (the column); the line is the block
\* nesting level.
RECURSIVE LocParts(_, _, _)
LocParts(parts, n, line) ==
    IF parts = <<>> THEN [nodes |-> <<>>, next |-> n]
    ELSE Let(LocParts(Tail(parts),
                      IF Head(parts).type = "string" THEN n ELSE n + 1, line),
             LAMBDA rest :
                [nodes |-> <<IF Head(parts).type = "string" THEN Head(parts)
                             ELSE [Head(parts) EXCEPT
                                      !.loc = [line |-> line, column |-> n]]>>
                           \o rest.nodes,
                 next |-> rest.next])

LocExpr(e, n, line) ==
    IF e.type = "none" THEN [node |-> e, next |-> n]
    ELSE Let(LocParts(e.parts, n + 1, line),
             LAMBDA ps :
                [node |-> [e EXCEPT !.loc = [line |-> line, column |-> n],
                                    !.parts = ps.nodes],
                 next |-> ps.next])

RECURSIVE LocExprs(_, _, _)
LocExprs(es, n, line) ==
    IF es = <<>> THEN [nodes |-> <<>>, next |-> n]
    ELSE Let(LocExpr(Head(es), n, line),
             LAMBDA h :
                Let(LocExprs(Tail(es), h.next, line),
                    LAMBDA rest :
                        [nodes |-> <<h.node>> \o rest.nodes, next |-> rest.next]))

RECURSIVE LocProgram(_, _, _), LocStatements(_, _, _), LocStatement(_, _, _)
LocStatement(s, n, line) ==
    Let(LocExpr(s.path, n + 1, line), LAMBDA path :
    Let(LocExprs(s.params, path.next, line), LAMBDA params :
    Let(LocProgram(s.program, params.next, line + 1), LAMBDA program :
    Let(LocProgram(s.inverse, program.next, line + 1), LAMBDA inverse :
        [node |-> [s EXCEPT !.loc = [line |-> line, column |-> n],
                            !.path = path.node, !.params = params.nodes,
                            !.program = program.node, !.inverse = inverse.node],
         next |-> inverse.next]))))

LocStatements(ss, n, line) ==
    IF ss = <<>> THEN [nodes |-> <<>>, next |-> n]
    ELSE Let(LocStatement(Head(ss), n, line),
             LAMBDA h :
                Let(LocStatements(Tail(ss), h.next, line),
                    LAMBDA rest :
                        [nodes |-> <<h.node>> \o rest.nodes, next |-> rest.next]))

LocProgram(p, n, line) ==
    IF p.type = "none" THEN [node |-> p, next |-> n]
    ELSE Let(LocStatements(p.body, n + 1, line),
             LAMBDA body :
                [node |-> [p EXCEPT !.loc = [line |-> line, column |-> n],
                                    !.body = body.nodes],
                 next |-> body.next])

parse(str) == LocProgram(str, 1, 1).node

\* ------------------------------------------------------------------ SourceNode
\* One chunk of generated text with the position of the SourceNode that owns
\* it.  k = "p": fixed text of the compiler; "id": a name; "text": computed
\* characters (cs).  A template string with interpolated names is kept as
\* its pieces, e.g. `).map(([key0, val0]) => (` is ").map((["  key0  ", "
\* val0  "]) => (".
Chunk(k, s, loc) == [k |-> k, s |-> s, cs |-> <<>>, o |-> loc]

P(s, loc) == <<Chunk("p", s, loc)>>

Id(s, loc) == <<Chunk("id", s, loc)>>

Text(cs, loc) == <<[k |-> "text", s |-> "", cs |-> cs, o |-> loc]>>

\* the chunk '""'
EmptyString(loc) == Text(<<"\"", "\"">>, loc)

\* ------------------------------------------------------------------ errors
NoErr == [name |-> "", line |-> 0, column |-> 0]

\* new Error(`Unexpected ${name} at ${line}:${column}`)
Unexpected(name, loc) == [name |-> name, line |-> loc.line, column |-> loc.column]

\* ------------------------------------------------------------------ ctx.imports
\* a Map in insertion order: a sequence of [k, v] with one entry per key
MapHas(m, k) == \E i \in 1..Len(m) : m[i].k = k

MapSet(m, k, v) ==
    IF MapHas(m, k)
    THEN [i \in 1..Len(m) |-> IF m[i].k = k THEN [k |-> k, v |-> v] ELSE m[i]]
    ELSE Append(m, [k |-> k, v |-> v])

RuntimeModule == <<"@", "e", "s", "l", "y", "m", "/", "t", "i", "n", "y",
                   "b", "a", "r", "s", "/", "r", "u", "n", "t", "i", "m", "e">>

\* ------------------------------------------------------------------ compileExpression
\* Results are [f, err]: the fragment, or the error thrown.
\* r, or K(r) when r threw nothing
Try(r, K(_)) == IF r.err # NoErr THEN r ELSE K(r)

RECURSIVE compileExpression(_, _), compileParts(_, _, _)
compileParts(parts, ctx, loc) ==
    IF parts = <<>> THEN [f |-> <<>>, err |-> NoErr]
    ELSE Try(IF Head(parts).type = "string"
             THEN [f |-> Text(JSONstringify(Head(parts).value), loc), err |-> NoErr]
             ELSE compileExpression(Head(parts), ctx),
             LAMBDA one :
                Try(compileParts(Tail(parts), ctx, loc),
                    LAMBDA rest :
                        [f |-> P("[", loc) \o one.f \o P("]", loc) \o rest.f,
                         err |-> NoErr]))

\* PathBase without the depth test of @key and @index
PathBase_NoDepthTest(ast, ctx) ==
    IF ast.data
    THEN CASE ast.head = "root" -> [f |-> Id("root", ast.loc), err |-> NoErr]
           [] ast.head = "this" -> [f |-> Id(ctx.inputVar, ast.loc), err |-> NoErr]
           [] ast.head \in {"key", "index"} ->
                [f |-> Id("key" \o ToString(ctx.depth - 1), ast.loc), err |-> NoErr]
           [] OTHER -> [f |-> Id(ctx.dataVar, ast.loc), err |-> NoErr]
    ELSE [f |-> Id(ctx.inputVar, ast.loc), err |-> NoErr]

PathBase(ast, ctx) ==
    IF ast.data
    THEN CASE ast.head = "root" -> [f |-> Id("root", ast.loc), err |-> NoErr]
           [] ast.head = "this" -> [f |-> Id(ctx.inputVar, ast.loc), err |-> NoErr]
           [] ast.head \in {"key", "index"} ->
                IF ctx.depth = 0
                THEN [f |-> <<>>, err |-> Unexpected(ast.original, ast.loc)]
                ELSE [f |-> Id("key" \o ToString(ctx.depth - 1), ast.loc),
                      err |-> NoErr]
           [] OTHER -> [f |-> Id(ctx.dataVar, ast.loc), err |-> NoErr]
    ELSE [f |-> Id(ctx.inputVar, ast.loc), err |-> NoErr]

compileExpression(ast, ctx) ==
    CASE ast.type = "PathExpression" ->
            Try(PathBase(ast, ctx),
                LAMBDA base :
                    Try(compileParts(ast.parts, ctx, ast.loc),
                        LAMBDA parts : [f |-> base.f \o parts.f, err |-> NoErr]))
      [] ast.type = "StringLiteral" ->
            [f |-> Text(JSONstringify(ast.value), ast.loc), err |-> NoErr]
      [] ast.type = "BooleanLiteral" ->
            [f |-> P(IF ast.value # <<>> THEN "true" ELSE "false", ast.loc),
             err |-> NoErr]
      [] ast.type = "NumberLiteral" ->
            [f |-> Text(ast.value, ast.loc), err |-> NoErr]
      [] ast.type = "UndefinedLiteral" ->
            [f |-> P("undefined", ast.loc), err |-> NoErr]
      [] ast.type = "NullLiteral" ->
            [f |-> P("null", ast.loc), err |-> NoErr]
      [] OTHER -> [f |-> <<>>, err |-> Unexpected(ast.type, ast.loc)]

\* ------------------------------------------------------------------ compileFunctionCall
RECURSIVE compileArgs(_, _, _, _)
compileArgs(params, i, ctx, loc) ==
    IF i > Len(params) THEN [f |-> <<>>, err |-> NoErr]
    ELSE Try(compileExpression(params[i], ctx),
             LAMBDA one :
                Try(compileArgs(params, i + 1, ctx, loc),
                    LAMBDA rest :
                        [f |-> one.f
                               \o (IF i < Len(params) THEN P(", ", loc) ELSE <<>>)
                               \o rest.f,
                         err |-> NoErr]))

compileFunctionCall(ast, ctx) ==
    Try(compileExpression(ast.path, ctx),
        LAMBDA callee :
            Try(compileArgs(ast.params, 1, ctx, ast.loc),
                LAMBDA args :
                    [f |-> callee.f \o P("(", ast.loc) \o args.f \o P(")", ast.loc),
                     err |-> NoErr]))

\* ------------------------------------------------------------------ compileStatement
\* Results are [f, imports, err]: the fragment, ctx.imports after the call
\* (the Map is shared by reference), and the error thrown, if any.
Thrown(err, imports) == [f |-> <<>>, imports |-> imports, err |-> err]

Done(f, imports) == [f |-> f, imports |-> imports, err |-> NoErr]

\* an expression result as a statement result
OfExpr(r, imports) == [f |-> r.f, imports |-> imports, err |-> r.err]

compileComment(ast, ctx) ==
    IF ctx.omitComments THEN <<>>
    ELSE Text(<<"\"", "\"", "/", "*", " ">> \o StripTerminators(ast.value)
              \o <<" ", "*", "/">>, ast.loc)

RECURSIVE compileProgram(_, _, _), compileBody(_, _, _, _, _), compileStatement(_, _, _)
compileMustache(ast, ctx, imports) ==
    Try(OfExpr(IF Len(ast.params) > 0 THEN compileFunctionCall(ast, ctx)
               ELSE compileExpression(ast.path, ctx), imports),
        LAMBDA inner :
            IF ast.escaped
            THEN Done(Id("e", NoLoc) \o P("(", NoLoc) \o inner.f \o P(")", NoLoc),
                      MapSet(imports, "e", RuntimeModule))
            ELSE inner)

compileIfUnless(ast, ctx, imports) ==
    Try(OfExpr(compileExpression(ast.params[1], ctx), imports),
        LAMBDA condition :
    Try(compileProgram(ast.program, ctx, imports),
        LAMBDA positive :
    Try(IF ast.inverse.type # "none"
        THEN compileProgram(ast.inverse, ctx, positive.imports)
        ELSE Done(EmptyString(ast.loc), positive.imports),
        LAMBDA negative :
            Done(P("(", ast.loc) \o condition.f
                 \o P(" ? ", ast.loc)
                 \o (IF ast.path.original = "if" THEN positive.f ELSE negative.f)
                 \o P(" : ", ast.loc)
                 \o (IF ast.path.original = "if" THEN negative.f ELSE positive.f)
                 \o P(")", ast.loc),
                 negative.imports))))

\* compileEach whose body keeps the scope name of the surrounding context
compileEach_OuterScope(ast, ctx, imports) ==
    Try(OfExpr(compileExpression(ast.params[1], ctx), imports),
        LAMBDA src :
    Try(compileProgram(ast.program, [ctx EXCEPT !.depth = ctx.depth + 1], imports),
        LAMBDA body :
            Done(P("Object.entries(", ast.loc) \o src.f
                 \o P(").map(([", ast.loc)
                 \o Id("key" \o ToString(ctx.depth), ast.loc)
                 \o P(", ", ast.loc)
                 \o Id("val" \o ToString(ctx.depth), ast.loc)
                 \o P("]) => (", ast.loc)
                 \o body.f
                 \o P(")).join(\"\")", ast.loc),
                 body.imports)))

compileEach(ast, ctx, imports) ==
    Try(OfExpr(compileExpression(ast.params[1], ctx), imports),
        LAMBDA src :
    Try(compileProgram(ast.program,
                       [ctx EXCEPT !.depth = ctx.depth + 1,
                                   !.inputVar = "val" \o ToString(ctx.depth)],
                       imports),
        LAMBDA body :
            Done(P("Object.entries(", ast.loc) \o src.f
                 \o P(").map(([", ast.loc)
                 \o Id("key" \o ToString(ctx.depth), ast.loc)
                 \o P(", ", ast.loc)
                 \o Id("val" \o ToString(ctx.depth), ast.loc)
                 \o P("]) => (", ast.loc)
                 \o body.f
                 \o P(")).join(\"\")", ast.loc),
                 body.imports)))

\* compileWith that counts as a level of iteration
compileWith_Deeper(ast, ctx, imports) ==
    Try(compileProgram(ast.program,
                       [ctx EXCEPT !.inputVar = "val", !.depth = ctx.depth + 1],
                       imports),
        LAMBDA body :
    Try(OfExpr(compileExpression(ast.params[1], ctx), body.imports),
        LAMBDA src :
            Done(P("((", ast.loc) \o Id("val", ast.loc) \o P(")=> (", ast.loc)
                 \o body.f
                 \o P("))(", ast.loc) \o src.f \o P(")", ast.loc),
                 body.imports)))

compileWith(ast, ctx, imports) ==
    Try(compileProgram(ast.program, [ctx EXCEPT !.inputVar = "val"], imports),
        LAMBDA body :
    Try(OfExpr(compileExpression(ast.params[1], ctx), body.imports),
        LAMBDA src :
            Done(P("((", ast.loc) \o Id("val", ast.loc) \o P(")=> (", ast.loc)
                 \o body.f
                 \o P("))(", ast.loc) \o src.f \o P(")", ast.loc),
                 body.imports)))

compileStatement(ast, ctx, imports) ==
    CASE ast.type = "ContentStatement" ->
            Done(Text(JSONstringify(ast.value), ast.loc), imports)
      [] ast.type = "CommentStatement" ->
            Done(compileComment(ast, ctx), imports)
      [] ast.type = "MustacheStatement" ->
            compileMustache(ast, ctx, imports)
      [] ast.type = "BlockStatement" ->
            (CASE ast.path.original \in {"if", "unless"} ->
                    compileIfUnless(ast, ctx, imports)
               [] ast.path.original = "each" -> compileEach(ast, ctx, imports)
               [] ast.path.original = "with" -> compileWith(ast, ctx, imports)
               [] OTHER -> Thrown(Unexpected(ast.path.original, ast.loc), imports))
      [] OTHER -> Thrown(Unexpected(ast.type, ast.loc), imports)

\* ------------------------------------------------------------------ compileProgram
\* the loop of compileProgram from statement i on
compileBody(ast, i, ctx, imports, acc) ==
    IF i > Len(ast.body) THEN Done(acc, imports)
    ELSE Try(compileStatement(ast.body[i], ctx, imports),
             LAMBDA st :
                compileBody(ast, i + 1, ctx, st.imports,
                            acc \o P(" + ", ast.loc) \o st.f))

compileProgram(ast, ctx, imports) ==
    compileBody(ast, 1, ctx, imports, EmptyString(ast.loc))

\* ------------------------------------------------------------------ JavaScript values
\* t is the type; s the characters of a string (or the name of an error or
\* of a function), n the number (or 1/0 for a boolean), e the own
\* properties [k, v] in creation order.
Val(t, cs, n, e) == [t |-> t, s |-> cs, n |-> n, e |-> e]

Str(cs) == Val("string", cs, 0, <<>>)

Num(n) == Val("number", <<>>, n, <<>>)

NaN == Val("NaN", <<>>, 0, <<>>)

Bool(b) == Val("boolean", <<>>, IF b THEN 1 ELSE 0, <<>>)

Null == Val("null", <<>>, 0, <<>>)

Undefined == Val("undefined", <<>>, 0, <<>>)

Obj(entries) == Val("object", <<>>, 0, entries)

Arr(elems) ==
    Val("array", <<>>, 0,
        [i \in 1..Len(elems) |-> [k |-> NumToChars(i - 1), v |-> elems[i]]])

Prop(k, v) == [k |-> k, v |-> v]

ThrowVal(name) == Val("throw", name, 0, <<>>)

TypeError == ThrowVal(<<"T", "y", "p", "e", "E", "r", "r", "o", "r">>)

ReferenceError == ThrowVal(<<"R", "e", "f", "E", "r", "r", "o", "r">>)

SyntaxError == ThrowVal(<<"S", "y", "n", "t", "a", "x", "E", "r", "r", "o", "r">>)

EscapeFunction == Val("function", <<"e", "s", "c", "a", "p", "e", "H", "T", "M", "L">>, 0, <<>>)

\* ------------------------------------------------------------------ runtime.ts
\* the tags table
Entity(c) ==
    CASE c = "&" -> <<"&", "a", "m", "p", ";">>
      [] c = "<" -> <<"&", "l", "t", ";">>
      [] c = ">" -> <<"&", "g", "t", ";">>
      [] c = "'" -> <<"&", "#", "3", "9", ";">>
      [] c = "\"" -> <<"&", "q", "u", "o", "t", ";">>
      [] OTHER -> <<c>>

\* escapeHTML(str): str.replace(...) exists on strings only; any other
\* argument makes the call str.replace(...) throw a TypeError
escapeHTML(str) ==
    IF str.t = "string" THEN Str(FlatMap(Entity, str.s)) ELSE TypeError

\* ------------------------------------------------------------------ lexing the generated text
LexTok(k, s, cs) == [k |-> k, s |-> s, cs |-> cs]

\* a string literal from the character after its opening quote
RECURSIVE ReadString(_, _, _)
ReadString(cs, i, acc) ==
    IF i > Len(cs) \/ cs[i] = "\n" THEN [ok |-> FALSE, v |-> <<>>, i |-> i]
    ELSE IF cs[i] = "\"" THEN [ok |-> TRUE, v |-> acc, i |-> i + 1]
    ELSE IF cs[i] = "\\"
         THEN IF i + 1 > Len(cs) THEN [ok |-> FALSE, v |-> <<>>, i |-> i]
              ELSE ReadString(cs, i + 2,
                              Append(acc, IF cs[i + 1] = "n" THEN "\n" ELSE cs[i + 1]))
    ELSE ReadString(cs, i + 1, Append(acc, cs[i]))

RECURSIVE ReadDigits(_, _)
ReadDigits(cs, i) ==
    IF i <= Len(cs) /\ IsDigit(cs[i]) THEN ReadDigits(cs, i + 1) ELSE i

\* the index after the first * / at or after i, or 0 when the comment is
\* not terminated
RECURSIVE CommentEnd(_, _)
CommentEnd(cs, i) ==
    IF i + 1 > Len(cs) THEN 0
    ELSE IF cs[i] = "*" /\ cs[i + 1] = "/" THEN i + 2
    ELSE CommentEnd(cs, i + 1)

\* the tokens of computed text: string literals, numbers and block
\* comments; anything else is a token no expression of the generated
\* grammar continues with
BadTok == <<LexTok("bad", "", <<>>)>>

RECURSIVE LexText(_, _)
LexText(cs, i) ==
    IF i > Len(cs) THEN <<>>
    ELSE IF cs[i] = " " THEN LexText(cs, i + 1)
    ELSE IF cs[i] = "\""
         THEN Let(ReadString(cs, i + 1, <<>>),
                  LAMBDA r : IF r.ok THEN <<LexTok("str", "", r.v)>> \o LexText(cs, r.i)
                             ELSE BadTok)
    ELSE IF IsDigit(cs[i])
         THEN Let(ReadDigits(cs, i),
                  LAMBDA j : <<LexTok("num", "", SubSeq(cs, i, j - 1))>>
                             \o LexText(cs, j))
    ELSE IF cs[i] = "/" /\ i < Len(cs) /\ cs[i + 1] = "*"
         THEN Let(CommentEnd(cs, i + 2),
                  LAMBDA j : IF j = 0 THEN BadTok ELSE LexText(cs, j))
    ELSE BadTok

LexChunk(c) ==
    IF c.k = "text" THEN LexText(c.cs, 1) ELSE <<LexTok(c.k, c.s, <<>>)>>

Lex(code) == FlatMap(LexChunk, code)

\* ------------------------------------------------------------------ parsing the generated text
Fail == [ok |-> FALSE, node |-> [n |-> "none"], i |-> 0]

Ok(node, i) == [ok |-> TRUE, node |-> node, i |-> i]

At(ts, i, s) == i <= Len(ts) /\ ts[i].k = "p" /\ ts[i].s = s

IsId(ts, i) == i <= Len(ts) /\ ts[i].k = "id"

Keywords == {"true", "false", "null", "undefined"}

\* r, or K(r) when r parsed
Then(r, K(_)) == IF r.ok THEN K(r) ELSE Fail

\* K when the fixed text s is at i
Expect(ts, i, s, K) == IF At(ts, i, s) THEN K ELSE Fail

RECURSIVE PCond(_, _), PAddRest(_, _, _), PUnary(_, _), PSuffix(_, _, _),
          PPrimary(_, _), PArgs(_, _, _)
\* ConditionalExpression
PCond(ts, i) ==
    Then(PUnary(ts, i), LAMBDA u :
    Then(PAddRest(ts, u.node, u.i), LAMBDA c :
        IF ~At(ts, c.i, " ? ") THEN c
        ELSE Then(PCond(ts, c.i + 1), LAMBDA a :
             Expect(ts, a.i, " : ",
             Then(PCond(ts, a.i + 1), LAMBDA b :
                Ok([n |-> "cond", c |-> c.node, a |-> a.node, b |-> b.node],
                   b.i))))))

\* AdditiveExpression, left associative
PAddRest(ts, left, i) ==
    IF ~At(ts, i, " + ") THEN Ok(left, i)
    ELSE Then(PUnary(ts, i + 1), LAMBDA r :
            PAddRest(ts, [n |-> "add", l |-> left, r |-> r.node], r.i))

\* UnaryExpression: a + in operand position is the unary plus
PUnary(ts, i) ==
    IF At(ts, i, " + ")
    THEN Then(PUnary(ts, i + 1), LAMBDA x : Ok([n |-> "plus", x |-> x.node], x.i))
    ELSE Then(PPrimary(ts, i), LAMBDA p : PSuffix(ts, p.node, p.i))

\* member access o[i] and calls f(args)
PSuffix(ts, left, i) ==
    IF At(ts, i, "[")
    THEN Then(PCond(ts, i + 1), LAMBDA x :
         Expect(ts, x.i, "]",
            PSuffix(ts, [n |-> "index", o |-> left, i |-> x.node], x.i + 1)))
    ELSE IF At(ts, i, "(")
    THEN Then(IF At(ts, i + 1, ")") THEN Ok(<<>>, i + 1) ELSE PArgs(ts, i + 1, <<>>),
              LAMBDA a :
                PSuffix(ts, [n |-> "call", f |-> left, args |-> a.node], a.i + 1))
    ELSE Ok(left, i)

\* one or more arguments up to the closing parenthesis (i is left on it);
\* node is the sequence of arguments
PArgs(ts, i, acc) ==
    Then(PCond(ts, i), LAMBDA x :
        IF At(ts, x.i, ", ") THEN PArgs(ts, x.i + 1, Append(acc, x.node))
        ELSE Expect(ts, x.i, ")", Ok(Append(acc, x.node), x.i)))

\* Object.entries(src).map(([key, val]) => (body)).join("")
PEach(ts, i) ==
    Then(PCond(ts, i + 1), LAMBDA src :
        IF ~(At(ts, src.i, ").map(([") /\ IsId(ts, src.i + 1)
             /\ At(ts, src.i + 2, ", ") /\ IsId(ts, src.i + 3)
             /\ At(ts, src.i + 4, "]) => ("))
        THEN Fail
        ELSE Then(PCond(ts, src.i + 5), LAMBDA body :
             Expect(ts, body.i, ")).join(\"\")",
                Ok([n |-> "each", src |-> src.node, key |-> ts[src.i + 1].s,
                    val |-> ts[src.i + 3].s, body |-> body.node], body.i + 1))))

\* ((param)=> (body))(arg)
PWith(ts, i) ==
    IF ~(IsId(ts, i + 1) /\ At(ts, i + 2, ")=> (")) THEN Fail
    ELSE Then(PCond(ts, i + 3), LAMBDA body :
         Expect(ts, body.i, "))(",
         Then(PCond(ts, body.i + 1), LAMBDA arg :
         Expect(ts, arg.i, ")",
            Ok([n |-> "with", param |-> ts[i + 1].s, body |-> body.node,
                arg |-> arg.node], arg.i + 1)))))

PPrimary(ts, i) ==
    IF i > Len(ts) THEN Fail
    ELSE IF ts[i].k = "str" THEN Ok([n |-> "str", cs |-> ts[i].cs], i + 1)
    ELSE IF ts[i].k = "num" THEN Ok([n |-> "num", cs |-> ts[i].cs], i + 1)
    ELSE IF ts[i].k = "id" THEN Ok([n |-> "id", s |-> ts[i].s], i + 1)
    ELSE IF ts[i].k = "p" /\ ts[i].s \in Keywords
         THEN Ok([n |-> "const", s |-> ts[i].s], i + 1)
    ELSE IF At(ts, i, "(")
         THEN Then(PCond(ts, i + 1), LAMBDA x :
              Expect(ts, x.i, ")", Ok(x.node, x.i + 1)))
    ELSE IF At(ts, i, "Object.entries(") THEN PEach(ts, i)
    ELSE IF At(ts, i, "((") THEN PWith(ts, i)
    ELSE Fail

\* ------------------------------------------------------------------ running the generated code
IsThrow(v) == v.t = "throw"

\* ToBoolean
Truthy(v) ==
    /\ v.t \notin {"null", "undefined", "NaN"}
    /\ ~(v.t = "boolean" /\ v.n = 0)
    /\ ~(v.t = "number" /\ v.n = 0)
    /\ ~(v.t = "string" /\ v.s = <<>>)

ObjectObject == <<"[", "o", "b", "j", "e", "c", "t", " ", "O", "b", "j", "e", "c", "t", "]">>

\* ToString; an array is its elements joined by commas, null and undefined
\* elements being empty
RECURSIVE ToStr(_), JoinElems(_, _)
ToStr(v) ==
    CASE v.t = "string" -> v.s
      [] v.t = "number" -> NumToChars(v.n)
      [] v.t = "NaN" -> <<"N", "a", "N">>
      [] v.t = "boolean" -> IF v.n = 1 THEN <<"t", "r", "u", "e">>
                            ELSE <<"f", "a", "l", "s", "e">>
      [] v.t = "null" -> <<"n", "u", "l", "l">>
      [] v.t = "undefined" -> <<"u", "n", "d", "e", "f", "i", "n", "e", "d">>
      [] v.t = "array" -> JoinElems(v.e, 1)
      [] OTHER -> ObjectObject

JoinElems(e, i) ==
    IF i > Len(e) THEN <<>>
    ELSE (IF e[i].v.t \in {"null", "undefined"} THEN <<>> ELSE ToStr(e[i].v))
         \o (IF i < Len(e) THEN <<",">> ELSE <<>>)
         \o JoinElems(e, i + 1)

RECURSIVE DigitsValue(_, _)
DigitsValue(cs, acc) ==
    IF cs = <<>> THEN acc ELSE DigitsValue(Tail(cs), acc * 10 + DigitVal(Head(cs)))

IsSpace(c) == c \in {" ", "\n"}

RECURSIVE TrimLeft(_), TrimRight(_)
TrimLeft(cs) == IF cs # <<>> /\ IsSpace(Head(cs)) THEN TrimLeft(Tail(cs)) ELSE cs

TrimRight(cs) ==
    IF cs # <<>> /\ IsSpace(cs[Len(cs)]) THEN TrimRight(SubSeq(cs, 1, Len(cs) - 1))
    ELSE cs

\* StringToNumber for the texts of the model: blank is 0, decimal digits
\* are their value, anything else is NaN
StringToNumber(cs) ==
    LET t == TrimRight(TrimLeft(cs))
    IN IF t = <<>> THEN Num(0)
       ELSE IF \A i \in 1..Len(t) : IsDigit(t[i]) THEN Num(DigitsValue(t, 0))
       ELSE NaN

\* ToNumber (objects and arrays through ToPrimitive, i.e. their string)
ToNumber(v) ==
    CASE v.t = "number" -> v
      [] v.t = "NaN" -> NaN
      [] v.t = "boolean" -> Num(v.n)
      [] v.t = "null" -> Num(0)
      [] v.t = "undefined" -> NaN
      [] OTHER -> StringToNumber(ToStr(v))

\* the binary + operator
JSAdd(l, r) ==
    IF l.t \in {"string", "object", "array", "function"}
       \/ r.t \in {"string", "object", "array", "function"}
    THEN Str(ToStr(l) \o ToStr(r))
    ELSE LET a == ToNumber(l)
             b == ToNumber(r)
         IN IF a.t = "NaN" \/ b.t = "NaN" THEN NaN ELSE Num(a.n + b.n)

\* a canonical array index: "0", or digits without a leading zero
IsIndexKey(k) ==
    /\ k # <<>>
    /\ \A i \in 1..Len(k) : IsDigit(k[i])
    /\ (Len(k) = 1 \/ k[1] # "0")

\* the position of an entry with the least index key
MinIndexEntry(e) ==
    CHOOSE i \in 1..Len(e) :
        \A j \in 1..Len(e) : DigitsValue(e[i].k, 0) <= DigitsValue(e[j].k, 0)

RECURSIVE SortIndexEntries(_)
SortIndexEntries(e) ==
    IF e = <<>> THEN <<>>
    ELSE Let(e[MinIndexEntry(e)],
             LAMBDA least :
                <<least>>
                \o SortIndexEntries(SelectSeq(e, LAMBDA x : x.k # least.k)))

\* OrdinaryOwnPropertyKeys: index keys in ascending numeric order, then the
\* other string keys in creation order
OwnEntries(e) ==
    LET IsIdx(x) == IsIndexKey(x.k)
        NotIdx(x) == ~IsIndexKey(x.k)
    IN SortIndexEntries(SelectSeq(e, IsIdx)) \o SelectSeq(e, NotIdx)

\* Object.entries(v)
ObjectEntries(v) ==
    CASE v.t \in {"null", "undefined"} -> [ok |-> FALSE, e |-> <<>>]
      [] v.t \in {"object", "array"} -> [ok |-> TRUE, e |-> OwnEntries(v.e)]
      [] v.t = "string" ->
            [ok |-> TRUE,
             e |-> [i \in 1..Len(v.s) |-> Prop(NumToChars(i - 1), Str(<<v.s[i]>>))]]
      [] OTHER -> [ok |-> TRUE, e |-> <<>>]

Length == <<"l", "e", "n", "g", "t", "h">>

\* o[k]
GetProp(o, k) ==
    CASE o.t \in {"null", "undefined"} -> TypeError
      [] o.t \in {"object", "array"} ->
            IF \E i \in 1..Len(o.e) : o.e[i].k = k
            THEN o.e[CHOOSE i \in 1..Len(o.e) : o.e[i].k = k].v
            ELSE IF o.t = "array" /\ k = Length THEN Num(Len(o.e))
            ELSE Undefined
      [] o.t = "string" ->
            IF k = Length THEN Num(Len(o.s))
            ELSE IF IsIndexKey(k) /\ DigitsValue(k, 0) < Len(o.s)
                 THEN Str(<<o.s[DigitsValue(k, 0) + 1]>>)
            ELSE Undefined
      [] OTHER -> Undefined

\* the innermost binding of a name
Lookup(env, name) ==
    IF \E i \in 1..Len(env) : env[i].k = name
    THEN env[CHOOSE i \in 1..Len(env) :
                /\ env[i].k = name
                /\ \A j \in (i + 1)..Len(env) : env[j].k # name].v
    ELSE ReferenceError

Bind(env, name, v) == Append(env, [k |-> name, v |-> v])

\* v, or K(v) when v is not a thrown error
Unless(v, K(_)) == IF IsThrow(v) THEN v ELSE K(v)

RECURSIVE Eval(_, _), EvalArgs(_, _, _, _), EvalMap(_, _, _, _, _)
Eval(node, env) ==
    CASE node.n = "str" -> Str(node.cs)
      [] node.n = "num" -> Num(DigitsValue(node.cs, 0))
      [] node.n = "const" ->
            (CASE node.s = "true" -> Bool(TRUE)
               [] node.s = "false" -> Bool(FALSE)
               [] node.s = "null" -> Null
               [] OTHER -> Undefined)
      [] node.n = "id" -> Lookup(env, node.s)
      [] node.n = "cond" ->
            Unless(Eval(node.c, env), LAMBDA c :
                Eval(IF Truthy(c) THEN node.a ELSE node.b, env))
      [] node.n = "add" ->
            Unless(Eval(node.l, env), LAMBDA l :
            Unless(Eval(node.r, env), LAMBDA r : JSAdd(l, r)))
      [] node.n = "plus" ->
            Unless(Eval(node.x, env), LAMBDA x : ToNumber(x))
      [] node.n = "index" ->
            Unless(Eval(node.o, env), LAMBDA o :
            Unless(Eval(node.i, env), LAMBDA k : GetProp(o, ToStr(k))))
      [] node.n = "call" ->
            Unless(Eval(node.f, env), LAMBDA f :
            Let(EvalArgs(node.args, 1, env, <<>>), LAMBDA args :
                IF args.thrown THEN args.v
                ELSE IF f # EscapeFunction THEN TypeError
                ELSE escapeHTML(IF args.vs = <<>> THEN Undefined ELSE args.vs[1])))
      [] node.n = "each" ->
            Unless(Eval(node.src, env), LAMBDA src :
            Let(ObjectEntries(src), LAMBDA entries :
                IF ~entries.ok THEN TypeError
                ELSE EvalMap(entries.e, 1, node, env, <<>>)))
      [] node.n = "with" ->
            Unless(Eval(node.arg, env), LAMBDA arg :
                Eval(node.body, Bind(env, node.param, arg)))
      [] OTHER -> SyntaxError

EvalArgs(args, i, env, acc) ==
    IF i > Len(args) THEN [thrown |-> FALSE, v |-> Undefined, vs |-> acc]
    ELSE Let(Eval(args[i], env), LAMBDA a :
            IF IsThrow(a) THEN [thrown |-> TRUE, v |-> a, vs |-> <<>>]
            ELSE EvalArgs(args, i + 1, env, Append(acc, a)))

\* entries.map(([key, val]) => (body)).join("")
EvalMap(entries, i, node, env, acc) ==
    IF i > Len(entries) THEN Str(acc)
    ELSE Unless(Eval(node.body,
                     Bind(Bind(env, node.key, Str(entries[i].k)),
                          node.val, entries[i].v)),
                LAMBDA one :
                    EvalMap(entries, i + 1, node, env,
                            acc \o (IF one.t \in {"null", "undefined"} THEN <<>>
                                    ELSE ToStr(one))))

\* ------------------------------------------------------------------ the generated module
\* the import lines at the head of the module, from token i on
RECURSIVE PImports(_, _, _)
PImports(ts, i, acc) ==
    IF At(ts, i, "import ")
    THEN IF IsId(ts, i + 1) /\ At(ts, i + 2, " from ") /\ i + 3 <= Len(ts)
            /\ ts[i + 3].k = "str" /\ At(ts, i + 4, ";\n")
         THEN PImports(ts, i + 5, Append(acc, [k |-> ts[i + 1].s, v |-> ts[i + 3].cs]))
         ELSE [ok |-> FALSE, imports |-> <<>>, i |-> 0]
    ELSE IF At(ts, i, "const ")
    THEN IF IsId(ts, i + 1) /\ At(ts, i + 2, " = require(") /\ i + 3 <= Len(ts)
            /\ ts[i + 3].k = "str" /\ At(ts, i + 4, ");\n")
         THEN PImports(ts, i + 5, Append(acc, [k |-> ts[i + 1].s, v |-> ts[i + 3].cs]))
         ELSE [ok |-> FALSE, imports |-> <<>>, i |-> 0]
    ELSE [ok |-> TRUE, imports |-> acc, i |-> i]

NoModule == [ok |-> FALSE, imports |-> <<>>, params |-> <<>>,
             rootInit |-> [k |-> "", v |-> ""], body |-> [n |-> "none"]]

\* the function declaration from its opening parenthesis at j.  Early
\* errors: a name imported twice, a repeated parameter name (the parameter
\* list has a default value), a parameter named like the const.
PFunction(ts, j, imports) ==
    IF ~(At(ts, j, "(") /\ IsId(ts, j + 1) /\ At(ts, j + 2, ", ")
         /\ IsId(ts, j + 3) /\ At(ts, j + 4, " = {}){\n")
         /\ At(ts, j + 5, "    const ") /\ IsId(ts, j + 6)
         /\ At(ts, j + 7, " = ") /\ IsId(ts, j + 8)
         /\ At(ts, j + 9, ";\n") /\ At(ts, j + 10, "    return "))
    THEN NoModule
    ELSE Let(PCond(ts, j + 11), LAMBDA body :
            IF ~body.ok THEN NoModule
            ELSE IF ~(At(ts, body.i, ";\n}") /\ body.i = Len(ts)) THEN NoModule
            ELSE IF \E a, b \in 1..Len(imports) :
                        a # b /\ imports[a].k = imports[b].k
            THEN NoModule
            ELSE IF ts[j + 1].s = ts[j + 3].s
                    \/ ts[j + 6].s \in {ts[j + 1].s, ts[j + 3].s}
            THEN NoModule
            ELSE [ok |-> TRUE, imports |-> imports,
                  params |-> <<ts[j + 1].s, ts[j + 3].s>>,
                  rootInit |-> [k |-> ts[j + 6].s, v |-> ts[j + 8].s],
                  body |-> body.node])

\* the whole generated text: import lines, then the function declaration
PModule(ts) ==
    Let(PImports(ts, 1, <<>>), LAMBDA im :
        IF ~im.ok THEN NoModule
        ELSE IF ~(At(ts, im.i, "export default function ")
                  \/ At(ts, im.i, "module.exports = function "))
        THEN NoModule
        ELSE PFunction(ts, IF IsId(ts, im.i + 1) THEN im.i + 2 ELSE im.i + 1,
                       im.imports))

ParseModule(code) == PModule(Lex(code))

RECURSIVE BindImports(_, _, _)
BindImports(imports, i, env) ==
    IF i > Len(imports) THEN env
    ELSE BindImports(imports, i + 1,
                     Bind(env, imports[i].k,
                          IF imports[i].v = RuntimeModule THEN EscapeFunction
                          ELSE Undefined))

\* the body of the function called with (scope, data)
Call(m, scope, data) ==
    Let(Bind(Bind(BindImports(m.imports, 1, <<>>), m.params[1], scope),
             m.params[2], IF data.t = "undefined" THEN Obj(<<>>) ELSE data),
        LAMBDA env :
            Unless(Lookup(env, m.rootInit.v), LAMBDA init :
                Eval(m.body, Bind(env, m.rootInit.k, init))))

\* loading the generated module and calling its function with (scope, data)
Run(code, scope, data) ==
    Let(ParseModule(code), LAMBDA m :
        IF ~m.ok THEN SyntaxError ELSE Call(m, scope, data))

\* ------------------------------------------------------------------ compile
\* options of compile(str, options); "" is an absent option
Options(inputVar, dataVar, functionName, omitComments, format) ==
    [inputVar |-> inputVar, dataVar |-> dataVar, functionName |-> functionName,
     omitComments |-> omitComments, format |-> format, srcName |-> <<>>]

NoOptions == Options("", "", "", FALSE, "")

\* const ctx = { inputVar: '$t', dataVar: '$c', format: 'esm', ...options, depth: 0 }
RootContext(options) ==
    [inputVar |-> IF options.inputVar = "" THEN "$t" ELSE options.inputVar,
     dataVar |-> IF options.dataVar = "" THEN "$c" ELSE options.dataVar,
     format |-> IF options.format = "" THEN "esm" ELSE options.format,
     functionName |-> options.functionName,
     omitComments |-> options.omitComments,
     srcName |-> options.srcName,
     depth |-> 0]

\* the text of the function up to the body expression
FunctionHead(ctx) ==
    P(IF ctx.format = "esm" THEN "export default function "
      ELSE "module.exports = function ", NoLoc)
    \o (IF ctx.functionName # "" THEN Id(ctx.functionName, NoLoc) ELSE <<>>)
    \o P("(", NoLoc) \o Id(ctx.inputVar, NoLoc) \o P(", ", NoLoc)
    \o Id(ctx.dataVar, NoLoc) \o P(" = {}){\n", NoLoc)
    \o P("    const ", NoLoc) \o Id("root", NoLoc) \o P(" = ", NoLoc)
    \o Id(ctx.inputVar, NoLoc) \o P(";\n", NoLoc)
    \o P("    return ", NoLoc)

ImportLine(ctx, v, from) ==
    IF ctx.format = "esm"
    THEN P("import ", NoLoc) \o Id(v, NoLoc) \o P(" from ", NoLoc)
         \o Text(JSONstringify(from), NoLoc) \o P(";\n", NoLoc)
    ELSE P("const ", NoLoc) \o Id(v, NoLoc) \o P(" = require(", NoLoc)
         \o Text(JSONstringify(from), NoLoc) \o P(");\n", NoLoc)

\* for (const [v, from] of ctx.imports) sourceNode.prepend(...)
RECURSIVE PrependImports(_, _, _, _)
PrependImports(ctx, imports, i, code) ==
    IF i > Len(imports) THEN code
    ELSE PrependImports(ctx, imports, i + 1,
                        ImportLine(ctx, imports[i].k, imports[i].v) \o code)

NoResult == [kind |-> "none", code |-> <<>>, err |-> NoErr]

Compiled(code) == [kind |-> "code", code |-> code, err |-> NoErr]

Raised(err) == [kind |-> "error", code |-> <<>>, err |-> err]

Declined == [kind |-> "null", code |-> <<>>, err |-> NoErr]

\* compile(str, options) as one call
compile(str, options) ==
    Let(compileProgram(parse(str), RootContext(options), <<>>), LAMBDA body :
        IF body.err # NoErr THEN Raised(body.err)
        ELSE Compiled(PrependImports(RootContext(options), body.imports, 1,
                        FunctionHead(RootContext(options)) \o body.f
                        \o P(";\n}", NoLoc))))

\* ------------------------------------------------------------------ rollup plugin
\* options of tinybars(options); hasExtensions is FALSE when the caller
\* gives no extensions property
PluginOptions(hasExtensions, extensions, inputVar, omitComments) ==
    [hasExtensions |-> hasExtensions, extensions |-> extensions,
     inputVar |-> inputVar, dataVar |-> "", functionName |-> "",
     omitComments |-> omitComments]

HbsExt == <<".", "h", "b", "s">>

TplExt == <<".", "t", "p", "l">>

\* options = { extensions: ['.hbs'] }
tinybars(opts) == PluginOptions(TRUE, <<HbsExt>>, "", FALSE)

\* String.prototype.endsWith
EndsWith(cs, suffix) ==
    /\ Len(suffix) <= Len(cs)
    /\ SubSeq(cs, Len(cs) - Len(suffix) + 1, Len(cs)) = suffix

\* options.extensions?.some((ext) => id.endsWith(ext))
Matches(opts, fileId) ==
    /\ opts.hasExtensions
    /\ \E k \in 1..Len(opts.extensions) : EndsWith(fileId, opts.extensions[k])

\* { ...options, format: 'esm', srcName: id }
TransformOptions(opts, fileId) ==
    [inputVar |-> opts.inputVar, dataVar |-> opts.dataVar,
     functionName |-> opts.functionName, omitComments |-> opts.omitComments,
     format |-> "esm", srcName |-> fileId]

\* ------------------------------------------------------------------ inputs
\* {{x}}-style paths.  The parser's parts hold every segment of the path;
\* both shapes of a data path (segments with and without the sigil's name)
\* are fed to the compiler.
X == Path(FALSE, "x", <<Part(<<"x">>)>>, "x")

This == Path(FALSE, "", <<>>, "this")

KeyRef == Path(TRUE, "key", <<>>, "@key")

IndexRef == Path(TRUE, "index", <<Part(<<"i", "n", "d", "e", "x">>)>>, "@index")

Ta == ContentStatement(<<"a">>)

Tb == ContentStatement(<<"b">>)

Tq == ContentStatement(<<"\"", "\\", "<", "\n">>)

Cm == CommentStatement(<<"c">>)

Me == MustacheStatement(X, <<>>, TRUE)

Mr == MustacheStatement(X, <<>>, FALSE)

Mt == MustacheStatement(This, <<>>, FALSE)

Mk == MustacheStatement(KeyRef, <<>>, TRUE)

Mi == MustacheStatement(IndexRef, <<>>, FALSE)

\* {{x (y)}}: a call whose argument is a sub-expression
Mc == MustacheStatement(X, <<SubExpression>>, FALSE)

\* {{x this}}: a call with a supported argument
Mf == MustacheStatement(X, <<This>>, TRUE)

Pt == PartialStatement

SeqsUpTo(S, n) == UNION {[1..k -> S] : k \in 0..n}

FlatLeaves == {Ta, Tq, Cm, Me}

FlatTemplates ==
    {Program(b) : b \in SeqsUpTo(FlatLeaves, MaxFlat)}
    \cup {Program(<<l>>) : l \in {Mr, Mt, Mk, Mi, Mc, Mf, Pt}}
    \cup {Program(<<Cm, l>>) : l \in {Mr, Me}}

Helpers == {"if", "unless", "each", "with", "bogus"}

BlockPrograms == {Program(<<>>)} \cup {Program(<<l>>) : l \in {Ta, Mr, Mk, Cm, Pt}}

BlockInverses == {NoProgram} \cup {Program(<<l>>) : l \in {Tb, Mk, Pt}}

Blocks ==
    {BlockStatement(h, <<X>>, p, n) :
        h \in Helpers, p \in BlockPrograms, n \in BlockInverses}
    \cup {BlockStatement(h, ps, Program(<<Ta>>), Program(<<Tb>>)) :
            h \in Helpers, ps \in {<<KeyRef>>, <<X, SubExpression>>}}

\* blocks nested in one another, innermost body a single leaf
RECURSIVE Chains(_)
Chains(n) ==
    IF n = 0 THEN {Mr, Mk, Mi}
    ELSE LET inner == Chains(n - 1)
         IN inner \cup {BlockStatement(h, <<X>>, Program(<<c>>), NoProgram) :
                            h \in {"if", "each", "with"}, c \in inner}

\* {{#each x}}{{@key}}a{{{this}}}b{{/each}} and the same with {{this}}
EachTemplates ==
    {Program(<<BlockStatement("each", <<X>>, Program(<<Mk, Ta, m, Tb>>), NoProgram)>>) :
        m \in {Mt, MustacheStatement(This, <<>>, TRUE)}}

\* {{{@root.x}}} and {{{@foo.x}}}
RootX == Path(TRUE, "root", <<Part(<<"x">>)>>, "@root.x")

DataX == Path(TRUE, "foo", <<Part(<<"x">>)>>, "@foo.x")

\* the two paths under up to n nested {{#each x}} and {{#with x}}
RECURSIVE NameChains(_)
NameChains(n) ==
    IF n = 0 THEN {MustacheStatement(RootX, <<>>, FALSE),
                   MustacheStatement(DataX, <<>>, FALSE)}
    ELSE LET inner == NameChains(n - 1)
         IN inner \cup {BlockStatement(h, <<X>>, Program(<<c>>), NoProgram) :
                            h \in {"each", "with"}, c \in inner}

NameTemplates == {Program(<<c>>) : c \in NameChains(MaxNest)}

\* options that name the two parameters like a name the compiler generates
NameOptionSets ==
    {NoOptions} \cup
    {Options(a, b, "", FALSE, "") :
        a \in {"", "root"}, b \in {"", "root", "val", "val0", "key0"}}

\* {{! t }} for every text t of stars and slashes
CommentTemplates ==
    {Program(<<CommentStatement(t)>>) : t \in SeqsUpTo({"*", "/"}, MaxComment)}

BlockTemplates ==
    {Program(<<b>>) : b \in Blocks}
    \cup EachTemplates
    \cup {Program(<<c>>) : c \in Chains(MaxNest)}
    \cup {Program(<<BlockStatement(h, <<X>>, Program(<<Mt>>), Program(<<Mt>>)), l>>) :
            h \in {"if", "each", "with"}, l \in {Mt, Mk}}

Templates == FlatTemplates \cup BlockTemplates

OptionSets ==
    {NoOptions, Options("", "", "", TRUE, ""),
     Options("input", "data", "render", FALSE, "cjs")}

PluginOptionSets ==
    {PluginOptions(FALSE, <<>>, "", FALSE),
     PluginOptions(TRUE, <<HbsExt>>, "input", FALSE),
     PluginOptions(TRUE, <<TplExt>>, "", TRUE),
     PluginOptions(TRUE, <<TplExt, HbsExt>>, "", FALSE)}

FileIds == {<<"a">> \o HbsExt, <<"a">> \o TplExt, <<"h", "b", "s">>}

PluginTemplates == {Program(<<Ta>>), Program(<<Cm>>), Program(<<Mr>>)}

Values ==
    {Str(<<>>), Str(<<"<", "a", "&", ">", "'", "\"">>), Num(0), Num(7), NaN,
     Bool(FALSE), Bool(TRUE), Null, Undefined, Obj(<<>>), Arr(<<>>),
     Obj(<<Prop(<<"x">>, Str(<<"A", "n", "n">>))>>),
     Obj(<<Prop(<<"b">>, Str(<<"1">>)), Prop(<<"a">>, Str(<<"2">>))>>),
     Obj(<<Prop(<<"b">>, Str(<<"1">>)), Prop(<<"1">>, Str(<<"2">>)),
           Prop(<<"0">>, Str(<<"<">>))>>),
     Arr(<<Str(<<"y">>), Str(<<"&">>)>>)}

\* the first argument of the generated function
Scopes == {Obj(<<Prop(<<"x">>, v)>>) : v \in Values}

\* the second argument of the generated function
DataValues == {Undefined, Obj(<<Prop(<<"x">>, Str(<<"d">>))>>)}

\* ------------------------------------------------------------------ state
VARIABLES
    pc,          \* "idle", "plugin", "compiling", "done", "thrown", "declined", "ran"
    str,         \* the template given to compile
    options,     \* the options given to compile
    ctx,         \* the CompileContext of the running compile
    imports,     \* ctx.imports
    ast,         \* the parsed template
    i,           \* index of the next statement of the root program
    body,        \* the fragment of the root program so far
    result,      \* what compile (or transform) returned or threw
    configured,  \* the options given to tinybars()
    plugin,      \* the options the plugin closure holds
    id,          \* the file identifier given to transform
    scope,       \* the first argument of the generated function
    data,        \* its second argument
    output       \* what the generated function returned or threw

vars == <<pc, str, options, ctx, imports, ast, i, body, result, configured,
          plugin, id, scope, data, output>>

NoPlugin == PluginOptions(FALSE, <<>>, "", FALSE)

Init ==
    /\ pc = "idle"
    /\ str = Program(<<>>)
    /\ options = NoOptions
    /\ ctx = RootContext(NoOptions)
    /\ imports = <<>>
    /\ ast = Program(<<>>)
    /\ i = 1
    /\ body = <<>>
    /\ result = NoResult
    /\ configured = NoPlugin
    /\ plugin = NoPlugin
    /\ id = <<>>
    /\ scope = Undefined
    /\ data = Undefined
    /\ output = Undefined

\* compile() up to the loop of the root compileProgram
Enter(s, o) ==
    /\ str' = s
    /\ options' = o
    /\ ctx' = RootContext(o)
    /\ imports' = <<>>
    /\ ast' = parse(s)
    /\ i' = 1
    /\ body' = EmptyString(ast'.loc)
    /\ result' = NoResult
    /\ pc' = "compiling"

\* a direct call compile(str, options)
Compile ==
    /\ pc = "idle"
    /\ \E c \in ((Templates \cup CommentTemplates) \X OptionSets)
                \cup (NameTemplates \X NameOptionSets) :
          Enter(c[1], c[2])
    /\ UNCHANGED <<configured, plugin, id, scope, data, output>>

\* tinybars(options)
CreatePlugin ==
    /\ pc = "idle"
    /\ \E o \in PluginOptionSets :
        /\ configured' = o
        /\ plugin' = tinybars(o)
    /\ pc' = "plugin"
    /\ UNCHANGED <<str, options, ctx, imports, ast, i, body, result, id, scope,
                   data, output>>

\* transform(code, id): declines, or calls compile
Transform ==
    /\ pc = "plugin"
    /\ \E f \in FileIds, s \in PluginTemplates :
        /\ id' = f
        /\ IF ~Matches(plugin, f)
           THEN /\ result' = Declined
                /\ pc' = "declined"
                /\ str' = s
                /\ UNCHANGED <<options, ctx, imports, ast, i, body>>
           ELSE Enter(s, TransformOptions(plugin, f))
    /\ UNCHANGED <<configured, plugin, scope, data, output>>

\* one turn of the loop of the root compileProgram
CompileStatement ==
    /\ pc = "compiling"
    /\ i <= Len(ast.body)
    /\ \E st \in {compileStatement(ast.body[i], ctx, imports)} :
          /\ imports' = st.imports
          /\ IF st.err # NoErr
             THEN /\ result' = Raised(st.err)
                  /\ pc' = "thrown"
                  /\ UNCHANGED <<i, body>>
             ELSE /\ body' = body \o P(" + ", ast.loc) \o st.f
                  /\ i' = i + 1
                  /\ UNCHANGED <<result, pc>>
    /\ UNCHANGED <<str, options, ctx, ast, configured, plugin, id, scope, data,
                   output>>

\* the end of compile(): close the function, prepend the imports, return
Finish ==
    /\ pc = "compiling"
    /\ i > Len(ast.body)
    /\ result' = Compiled(PrependImports(ctx, imports, 1,
                            FunctionHead(ctx) \o body \o P(";\n}", NoLoc)))
    /\ pc' = "done"
    /\ UNCHANGED <<str, options, ctx, imports, ast, i, body, configured, plugin,
                   id, scope, data, output>>

\* the generated function is loaded and called
Invoke ==
    /\ pc = "done"
    /\ \E v \in Scopes, d \in DataValues :
        /\ scope' = v
        /\ data' = d
        /\ output' = Run(result.code, v, d)
    /\ pc' = "ran"
    /\ UNCHANGED <<str, options, ctx, imports, ast, i, body, result, configured,
                   plugin, id>>

Next ==
    \/ Compile
    \/ CreatePlugin
    \/ Transform
    \/ CompileStatement
    \/ Finish
    \/ Invoke

Spec == Init /\ [][Next]_vars

\* ------------------------------------------------------------------ the tree, read independently of the compiler
\* A site is a node of the template with the number n of Each blocks
\* around it and the name its unqualified paths are to resolve to; the size
\* of a program is the number of its statements.
SiteOf(kind, name, loc, n, scopeName, size) ==
    [kind |-> kind, name |-> name, line |-> loc.line, column |-> loc.column,
     n |-> n, scope |-> scopeName, size |-> size]

Site(kind, name, loc, n, scopeName) == SiteOf(kind, name, loc, n, scopeName, 0)

LiteralTypes == {"StringLiteral", "BooleanLiteral", "NumberLiteral",
                 "UndefinedLiteral", "NullLiteral"}

ExprSites(e, n, sc) ==
    IF e.type = "PathExpression"
    THEN (IF e.data /\ e.head \in {"key", "index"}
          THEN {Site("keyref", e.original, e.loc, n, sc)}
          ELSE IF ~e.data \/ e.head = "this"
          THEN {Site("scoperef", e.original, e.loc, n, sc)}
          ELSE {})
         \cup {Site("unsupported", e.parts[k].type, e.parts[k].loc, n, sc) :
                 k \in {j \in 1..Len(e.parts) : e.parts[j].type # "string"}}
    ELSE IF e.type \in LiteralTypes THEN {}
    ELSE {Site("unsupported", e.type, e.loc, n, sc)}

ExprsSites(es, from, n, sc) ==
    UNION {ExprSites(es[k], n, sc) : k \in from..Len(es)}

\* all = FALSE: the positions compile() descends into; all = TRUE: every
\* position of the tree
RECURSIVE StmtSites(_, _, _, _), ProgramSites(_, _, _, _)
ProgramSites(p, n, sc, all) ==
    IF p.type = "none" THEN {}
    ELSE {SiteOf("program", "", p.loc, n, sc, Len(p.body))}
         \cup UNION {StmtSites(p.body[k], n, sc, all) : k \in 1..Len(p.body)}

StmtSites(s, n, sc, all) ==
    CASE s.type \in {"ContentStatement", "CommentStatement"} -> {}
      [] s.type = "MustacheStatement" ->
            ExprSites(s.path, n, sc) \cup ExprsSites(s.params, 1, n, sc)
            \cup (IF s.escaped THEN {Site("escaped", "", s.loc, n, sc)} ELSE {})
      [] s.type = "BlockStatement" ->
            (CASE s.path.original \in {"if", "unless"} ->
                    ExprSites(s.params[1], n, sc)
                    \cup ProgramSites(s.program, n, sc, all)
                    \cup ProgramSites(s.inverse, n, sc, all)
                    \cup (IF all THEN ExprsSites(s.params, 2, n, sc) ELSE {})
               [] s.path.original = "each" ->
                    {Site("each", "", s.loc, n, sc)}
                    \cup ExprSites(s.params[1], n, sc)
                    \cup ProgramSites(s.program, n + 1, "val" \o ToString(n), all)
                    \cup (IF all THEN ExprsSites(s.params, 2, n, sc)
                                      \cup ProgramSites(s.inverse, n, sc, all)
                          ELSE {})
               [] s.path.original = "with" ->
                    ExprSites(s.params[1], n, sc)
                    \cup ProgramSites(s.program, n, "val", all)
                    \cup (IF all THEN ExprsSites(s.params, 2, n, sc)
                                      \cup ProgramSites(s.inverse, n, sc, all)
                          ELSE {})
               [] OTHER ->
                    {Site("unsupported", s.path.original, s.loc, n, sc)}
                    \cup (IF all THEN ExprsSites(s.params, 1, n, sc)
                                      \cup ProgramSites(s.program, n, sc, all)
                                      \cup ProgramSites(s.inverse, n, sc, all)
                          ELSE {}))
      [] OTHER -> {Site("unsupported", s.type, s.loc, n, sc)}

\* the sites compile() reaches, and the sites of the whole tree
Reached == ProgramSites(ast, 0, ctx.inputVar, FALSE)

Contained == ProgramSites(ast, 0, ctx.inputVar, TRUE)

Kind(sites, kind) == {x \in sites : x.kind = kind}

\* the error as the node it names: the name, the line and the column
Names(err, sites) ==
    \E x \in sites : x.name = err.name /\ x.line = err.line /\ x.column = err.column

Returned == pc \in {"done", "thrown", "ran"}

\* the chunks of the generated code mapped to the position of a site
ChunksAt(code, x) ==
    {k \in 1..Len(code) :
        code[k].o.line = x.line /\ code[k].o.column = x.column}

\* ------------------------------------------------------------------ claims
\* the stepwise compile returns what compile(str, options) returns
StepwiseIsCompile == Returned => result = compile(str, options)

\* C1: a reached @key or @index path with no Each around it makes compile
\* raise: no code is returned, and the error names a construct the compiler
\* rejects; when the tree holds no other unsupported construct, it names
\* such a path by its text, line and column.
C1_KeyOutsideEachRaises ==
    (Returned /\ Kind(Reached, "keyref") # {}
     /\ \E x \in Kind(Reached, "keyref") : x.n = 0)
    => /\ result.kind = "error"
       /\ result.code = <<>>
       /\ Names(result.err,
                {x \in Kind(Reached, "keyref") : x.n = 0}
                \cup Kind(Reached, "unsupported"))
       /\ Kind(Reached, "unsupported") = {}
            => Names(result.err, {x \in Kind(Reached, "keyref") : x.n = 0})

\* a @key in the body of an If, Unless or With (line 2) was rejected by name
C1_Witness ==
    /\ pc = "thrown"
    /\ result.err.name = "@key"
    /\ result.err.line = 2
    /\ Names(result.err, {x \in Kind(Reached, "keyref") : x.n = 0})

\* The binders of the generated code, read off the code itself: a chunk
\* ").map(([" opens the arrow function of an Each (its key and value names
\* follow), a chunk "((" the arrow function of a With (its value name
\* follows); ")).join("")" and "))(" close them.
OpensEach(c) == c.k = "p" /\ c.s = ").map((["

OpensWith(c) == c.k = "p" /\ c.s = "(("

Closes(c) == c.k = "p" /\ c.s \in {")).join(\"\")", "))("}

\* the binders open at chunk k, innermost last
Enclosing(code, k) ==
    LET opens == {q \in 1..k : OpensEach(code[q]) \/ OpensWith(code[q])}
        closes == {q \in 1..k : Closes(code[q])}
        level == [r \in 0..k |-> Cardinality({q \in opens : q <= r})
                                 - Cardinality({q \in closes : q <= r})]
    IN  {q \in opens : \A r \in q..k : level[r] > level[q - 1]}

Innermost(qs) == CHOOSE q \in qs : \A r \in qs : r <= q

\* the key name and the value name in force at chunk k
KeyInForce(code, k) ==
    LET qs == {q \in Enclosing(code, k) : OpensEach(code[q])}
    IN  IF qs = {} THEN "" ELSE code[Innermost(qs) + 1].s

ScopeInForce(code, k) ==
    LET qs == Enclosing(code, k)
    IN  IF qs = {} THEN ctx.inputVar
        ELSE IF OpensEach(code[Innermost(qs)]) THEN code[Innermost(qs) + 3].s
        ELSE code[Innermost(qs) + 1].s

\* the identifiers the generated code holds for a site
IdsAt(code, x) == {k \in ChunksAt(code, x) : code[k].k = "id"}

\* C2: the depth at a node is the number of Each blocks around it: an Each
\* block under n Each blocks binds key{n} and val{n}, and a reached @key or
\* @index under n >= 1 Each blocks compiles to key{n-1}, which is the key the
\* innermost enclosing loop of the generated code binds; If, Unless and With
\* blocks on the way change nothing.
C2_DepthCountsEachBlocks ==
    (Returned /\ result.kind = "code")
    => /\ \A x \in Kind(Reached, "each") :
            {result.code[k].s : k \in IdsAt(result.code, x)}
                = {"key" \o ToString(x.n), "val" \o ToString(x.n)}
       /\ \A x \in Kind(Reached, "keyref") :
            /\ x.n >= 1
            /\ IdsAt(result.code, x) # {}
            /\ \A k \in IdsAt(result.code, x) :
                /\ result.code[k].s = "key" \o ToString(x.n - 1)
                /\ result.code[k].s = KeyInForce(result.code, k)

\* a @key two Each blocks deep was compiled to key1
C2_Witness ==
    /\ pc = "done"
    /\ result.kind = "code"
    /\ \E x \in Kind(Reached, "keyref") :
        /\ x.n = 2
        /\ \E k \in IdsAt(result.code, x) : result.code[k].s = "key1"

\* {{#with x}}{{{x}}}{{/with}}, whatever follows {{else}}
WithOverX(t) ==
    /\ Len(t.body) = 1
    /\ t.body[1].type = "BlockStatement"
    /\ t.body[1].path.original = "with"
    /\ t.body[1].params = <<X>>
    /\ t.body[1].program = Program(<<Mr>>)

\* C3: an unqualified path (and @this) resolves against the value of the
\* nearest enclosing Each (val{n}) or With (val), or the function's first
\* parameter when there is none: that is the name the generated code holds
\* for it, and the name the innermost enclosing binder of the generated code
\* binds.  The statements after a block see the names the block itself saw.
\* Run, the body of {{#with x}} returns what the body alone returns when
\* called with the value of x.
C3_ScopeIsNearestBinder ==
    /\ (Returned /\ result.kind = "code")
       => \A x \in Kind(Reached, "scoperef") :
            /\ IdsAt(result.code, x) # {}
            /\ \A k \in IdsAt(result.code, x) :
                /\ result.code[k].s = x.scope
                /\ result.code[k].s = ScopeInForce(result.code, k)
    /\ (pc = "ran" /\ WithOverX(str))
       => output = Run(compile(Program(<<Mr>>), options).code,
                       GetProp(scope, <<"x">>), Undefined)

\* a path after an Each or With block on the same level resolves against
\* the function's parameter, a path in the block against the block's value
C3_Witness ==
    /\ pc = "done"
    /\ result.kind = "code"
    /\ \E x, y \in Kind(Reached, "scoperef") :
        /\ x.line = 2 /\ x.scope \in {"val", "val0"}
        /\ y.line = 1 /\ y.column > x.column /\ y.scope = ctx.inputVar
        /\ \E k \in IdsAt(result.code, y) : result.code[k].s = ctx.inputVar

\* the template without its comments, at every level
RECURSIVE StripComments(_), StripStatements(_, _)
StripComments(p) ==
    IF p.type = "none" THEN p ELSE [p EXCEPT !.body = StripStatements(p.body, 1)]

StripStatements(b, k) ==
    IF k > Len(b) THEN <<>>
    ELSE (IF b[k].type = "CommentStatement" THEN <<>>
          ELSE IF b[k].type = "BlockStatement"
          THEN <<[b[k] EXCEPT !.program = StripComments(@),
                              !.inverse = StripComments(@)]>>
          ELSE <<b[k]>>)
         \o StripStatements(b, k + 1)

HasComment(t) == StripComments(t) # t

\* C4: with comments kept or omitted, the function returns what the
\* function compiled from the same template without its comments returns.
C4_CommentsAddNothing ==
    (pc = "ran" /\ HasComment(str))
    => output = Run(compile(StripComments(str), options).code, scope, Undefined)

\* C5: {{x}} returns the string form of the value of x with & < > ' "
\* replaced by their entities, and {{{x}}} the string form unchanged, for a
\* value of any type.
C5_MustacheIsStringForm ==
    /\ (pc = "ran" /\ str = Program(<<Me>>))
       => output = Str(FlatMap(Entity, ToStr(GetProp(scope, <<"x">>))))
    /\ (pc = "ran" /\ str = Program(<<Mr>>))
       => output = Str(ToStr(GetProp(scope, <<"x">>)))

\* the chunks that open an import or require line
ImportLines(code) ==
    {k \in 1..Len(code) : code[k].k = "p" /\ code[k].s \in {"import ", "const "}}

\* the calls of the escape alias
AliasUses(code) ==
    {k \in 1..Len(code) - 1 :
        /\ code[k].k = "id" /\ code[k].s = "e"
        /\ code[k + 1].k = "p" /\ code[k + 1].s = "("}

\* C6: the generated code starts with exactly one import (esm) or require
\* (cjs) line for the escape helper when the template holds an escaped
\* Mustache statement at any level, has no such line when it holds none,
\* and every call of the alias is covered by the line.
C6_OneImportIffEscaped ==
    (Returned /\ result.kind = "code")
    => /\ Kind(Contained, "escaped") # {}
            => /\ ImportLines(result.code) = {1}
               /\ result.code[1].s = (IF ctx.format = "esm" THEN "import " ELSE "const ")
               /\ result.code[2].k = "id" /\ result.code[2].s = "e"
       /\ Kind(Contained, "escaped") = {} => ImportLines(result.code) = {}
       /\ AliasUses(result.code) # {} => ImportLines(result.code) = {1}

\* the falsy values as the specification lists them
ListedFalsy == {Null, Undefined, Bool(FALSE), Num(0), NaN, Str(<<>>)}

\* what a program returns on its own; an absent program the empty string
ProgramOutput(p, o, v) ==
    IF p.type = "none" THEN Str(<<>>)
    ELSE Run(compile(p, o).code, v, Undefined)

IfOrUnlessOverX(t) ==
    /\ Len(t.body) = 1
    /\ t.body[1].type = "BlockStatement"
    /\ t.body[1].path.original \in {"if", "unless"}
    /\ t.body[1].params[1] = X

\* C7: {{#if x}} returns its program's output when x is none of the listed
\* falsy values and its alternate's (or the empty string) otherwise,
\* {{#unless x}} the opposite, and the condition appears once in the code.
C7_IfUnlessChoose ==
    (pc = "ran" /\ IfOrUnlessOverX(str))
    => /\ output =
            ProgramOutput(IF (str.body[1].path.original = "if")
                              = (GetProp(scope, <<"x">>) \notin ListedFalsy)
                          THEN str.body[1].program ELSE str.body[1].inverse,
                          options, scope)
       /\ Cardinality({k \in 1..Len(result.code) :
                          /\ result.code[k].k = "id"
                          /\ result.code[k].o = ast.body[1].params[1].loc}) = 1

\* C8: a template that holds an unsupported construct at any position
\* makes compile raise an error naming a rejected construct by name, line
\* and column, and return no code.
C8_UnsupportedRaises ==
    (Returned /\ Kind(Contained, "unsupported") # {})
    => /\ result.kind = "error"
       /\ result.code = <<>>
       /\ Names(result.err,
                Kind(Contained, "unsupported")
                \cup {x \in Kind(Contained, "keyref") : x.n = 0})

\* the extensions the caller of tinybars() asked for
Configured == IF configured.hasExtensions THEN configured.extensions ELSE <<HbsExt>>

\* C9: transform compiles a file whose identifier ends with one of the
\* configured extensions (.hbs when none are given) and returns null for any
\* other; the compiler receives the caller's binding names, function name
\* and comment flag, the format esm and the identifier as source name.
C9_PluginHonoursOptions ==
    id # <<>>
    => /\ (result = Declined)
            <=> ~\E k \in 1..Len(Configured) : EndsWith(id, Configured[k])
       /\ pc # "declined"
            => /\ options.inputVar = configured.inputVar
               /\ options.dataVar = configured.dataVar
               /\ options.functionName = configured.functionName
               /\ options.omitComments = configured.omitComments
               /\ options.format = "esm"
               /\ options.srcName = id

\* the data arguments tried on a function of literal text
DataArgs == {Undefined, Null, Obj(<<>>), Obj(<<Prop(<<"x">>, Str(<<"d">>))>>)}

RECURSIVE ContentOf(_, _)
ContentOf(b, k) ==
    IF k > Len(b) THEN <<>> ELSE b[k].value \o ContentOf(b, k + 1)

RECURSIVE Fragments(_, _, _)
Fragments(p, c, k) ==
    IF k > Len(p.body) THEN <<>>
    ELSE P(" + ", p.loc) \o compileStatement(p.body[k], c, <<>>).f
         \o Fragments(p, c, k + 1)

RECURSIVE Separators(_, _)
Separators(loc, n) ==
    IF n = 0 THEN <<>> ELSE P(" + ", loc) \o Separators(loc, n - 1)

LiteralOnly(t) == \A k \in 1..Len(t.body) : t.body[k].type = "ContentStatement"

\* C10: the expression the function returns is the empty-string literal
\* followed, statement by statement in source order, by " + " and the
\* statement's fragment, and so is the expression of every program in the
\* tree: the code written for a program of n statements is the empty-string
\* literal and n times " + ".  A template of literal text returns that text
\* for every scope and data.
C10_ProgramIsConcatenation ==
    /\ pc \in {"done", "ran"}
       => /\ body = EmptyString(ast.loc) \o Fragments(ast, ctx, 1)
          /\ \A x \in Kind(Reached, "program") :
                SelectSeq(result.code, LAMBDA c : c.o.line = x.line
                                                 /\ c.o.column = x.column)
                    = EmptyString([line |-> x.line, column |-> x.column])
                      \o Separators([line |-> x.line, column |-> x.column], x.size)
          /\ result.code = PrependImports(ctx, imports, 1,
                              FunctionHead(ctx) \o body \o P(";\n}", NoLoc))
    /\ (pc = "ran" /\ LiteralOnly(str))
       => /\ output = Str(ContentOf(str.body, 1))
          /\ \A d \in DataArgs :
                Run(result.code, scope, d) = Str(ContentOf(str.body, 1))

\* three literal statements with quotes, backslash and newline were run
C10_Witness ==
    /\ pc = "ran"
    /\ LiteralOnly(str)
    /\ Len(str.body) = 3
    /\ \E k \in 1..3 : str.body[k] = Tq
    /\ output = Str(ContentOf(str.body, 1))

\* the text the body {{@key}}a{{this}}b gives for the pairs e[k..] taken in
\* the order they stand in e
RECURSIVE PairsText(_, _, _)
PairsText(e, k, escaped) ==
    IF k > Len(e) THEN <<>>
    ELSE FlatMap(Entity, e[k].k) \o <<"a">>
         \o (IF escaped THEN FlatMap(Entity, ToStr(e[k].v)) ELSE ToStr(e[k].v))
         \o <<"b">>
         \o PairsText(e, k + 1, escaped)

\* C11: an Each over a mapping or a sequence returns the body's text once
\* per own pair, with no separator, in the order the keys were inserted
\* (index order for a sequence), whatever the keys look like.
C11_EachInInsertionOrder ==
    (pc = "ran" /\ str \in EachTemplates
     /\ GetProp(scope, <<"x">>).t \in {"object", "array"})
    => output = Str(PairsText(GetProp(scope, <<"x">>).e, 1,
                              str.body[1].program.body[3].escaped))

\* what a chain of NameTemplates denotes: {{#with x}} and {{#each x}} move
\* the current scope cur, {{{@root.x}}} reads the first argument and
\* {{{@foo.x}}} the second
RECURSIVE Denotes(_, _, _, _), DenotesEach(_, _, _, _, _)
Denotes(st, cur, first, second) ==
    IF st.type = "MustacheStatement"
    THEN LET base == IF st.path.head = "root" THEN first
                     ELSE IF second = Undefined THEN Obj(<<>>) ELSE second
         IN Str(ToStr(GetProp(base, <<"x">>)))
    ELSE LET src == GetProp(cur, <<"x">>)
         IN IF IsThrow(src) THEN src
            ELSE IF st.path.original = "with"
                 THEN Denotes(st.program.body[1], src, first, second)
            ELSE IF ~ObjectEntries(src).ok THEN TypeError
            ELSE DenotesEach(st.program.body[1], ObjectEntries(src).e, 1,
                             first, second)

DenotesEach(st, e, k, first, second) ==
    IF k > Len(e) THEN Str(<<>>)
    ELSE LET one == Denotes(st, e[k].v, first, second)
             rest == DenotesEach(st, e, k + 1, first, second)
         IN IF IsThrow(one) THEN one
            ELSE IF IsThrow(rest) THEN rest
            ELSE Str(one.s \o rest.s)

\* C12: under every nesting of Each and With blocks and every choice of the
\* two option names, a path with the root sigil reads the function's first
\* argument and a path with another data sigil reads its second argument:
\* no name the generated code binds (root, val, val{d}, key{d}) captures them.
C12_OuterReferencesAreStable ==
    (pc = "ran" /\ str \in NameTemplates)
    => output = Denotes(str.body[1], scope, scope, data)

\* where the text cs holds the two characters that end a block comment
Terminators(cs) == {k \in 1..(Len(cs) - 1) : cs[k] = "*" /\ cs[k + 1] = "/"}

\* the chunks of the code that open an inline comment after ""
CommentChunks(code) ==
    {k \in 1..Len(code) :
        /\ code[k].k = "text"
        /\ Len(code[k].cs) >= 8
        /\ SubSeq(code[k].cs, 1, 4) = <<"\"", "\"", "/", "*">>}

\* C13: with comments kept, whatever the comment text (repeated and
\* overlapping stars and slashes such as **// included), the text put in the
\* generated inline comment holds no */, so the only terminator of the
\* emitted fragment is the one the compiler appends at its end.
C13_CommentHoldsNoTerminator ==
    (pc = "done" /\ str \in CommentTemplates /\ ~ctx.omitComments)
    => /\ CommentChunks(result.code) # {}
       /\ \A k \in CommentChunks(result.code) :
            Terminators(result.code[k].cs) = {Len(result.code[k].cs) - 1}
====
